---------------------------- MODULE Spec2Model ----------------------------
(***************************************************************************)
(* Model of the size-targeting core of the image generator                 *)
(* (ImageGenerator.estimateInitialDimensions, adjustDimensions,            *)
(* isWithinTolerance and generateImageWithTargetSize).                     *)
(*                                                                         *)
(* JavaScript Numbers are IEEE-754 doubles.  Every integer the program     *)
(* handles here (byte counts, pixel dimensions, their products) is below   *)
(* 2^53 and therefore exact, but many are above 2^31, so they are kept as  *)
(* multi-digit naturals (little-endian digit sequences in base 2^15).      *)
(* The product targetSize * tolerance is rounded to the nearest double as  *)
(* the hardware does, because the tolerance is a binary fraction that only *)
(* approximates the decimal literal the caller wrote.  Math.sqrt, the      *)
(* divisions and Math.round are evaluated in exact arithmetic, which       *)
(* gives the double result unless the exact value lies within a rounding   *)
(* error of a tie n + 1/2.  Every modelled target size is a multiple of    *)
(* 16 bytes, for which the estimator's values stay clear of such ties.     *)
(***************************************************************************)
EXTENDS Integers, Sequences, FiniteSets, TLC

---------------------------------------------------------------------------
(* Multi-digit naturals: <<d1, d2, ...>> stands for d1 + d2*Base + ...,   *)
(* without leading zero digits; <<>> is zero.                              *)

Base == 2^15

RECURSIVE BigFromInt(_)
BigFromInt(n) ==
    IF n = 0 THEN <<>> ELSE <<n % Base>> \o BigFromInt(n \div Base)

RECURSIVE BigToInt(_)
BigToInt(a) ==
    IF a = <<>> THEN 0 ELSE Head(a) + Base * BigToInt(Tail(a))

RECURSIVE BigNormalize(_)
BigNormalize(a) ==
    IF a = <<>> THEN <<>>
    ELSE IF a[Len(a)] = 0 THEN BigNormalize(SubSeq(a, 1, Len(a) - 1))
    ELSE a

RECURSIVE BigAddCarry(_, _, _)
BigAddCarry(a, b, c) ==
    IF a = <<>> /\ b = <<>>
    THEN IF c = 0 THEN <<>> ELSE <<c>>
    ELSE LET x == IF a = <<>> THEN 0 ELSE Head(a)
             y == IF b = <<>> THEN 0 ELSE Head(b)
             s == x + y + c
         IN  <<s % Base>> \o
             BigAddCarry(IF a = <<>> THEN <<>> ELSE Tail(a),
                         IF b = <<>> THEN <<>> ELSE Tail(b),
                         s \div Base)

BigAdd(a, b) == BigAddCarry(a, b, 0)

RECURSIVE BigMulDigit(_, _, _)
BigMulDigit(a, d, c) ==
    IF a = <<>>
    THEN IF c = 0 THEN <<>> ELSE <<c>>
    ELSE LET p == Head(a) * d + c
         IN  <<p % Base>> \o BigMulDigit(Tail(a), d, p \div Base)

BigShiftDigits(a, k) ==
    IF a = <<>> THEN <<>> ELSE [i \in 1..k |-> 0] \o a

RECURSIVE BigMul(_, _)
BigMul(a, b) ==
    IF a = <<>> \/ b = <<>> THEN <<>>
    ELSE BigAdd(IF Head(b) = 0 THEN <<>> ELSE BigMulDigit(a, Head(b), 0),
                BigShiftDigits(BigMul(a, Tail(b)), 1))

RECURSIVE BigLessAt(_, _, _)
BigLessAt(a, b, i) ==
    IF i = 0 THEN FALSE
    ELSE IF a[i] # b[i] THEN a[i] < b[i]
    ELSE BigLessAt(a, b, i - 1)

BigLess(a, b) ==
    IF Len(a) # Len(b) THEN Len(a) < Len(b) ELSE BigLessAt(a, b, Len(a))

BigLeq(a, b) == ~BigLess(b, a)

(* a * 2^k *)
BigShl(a, k) ==
    BigShiftDigits(BigMulDigit(a, 2^(k % 15), 0), k \div 15)

RECURSIVE BigDivSmallAt(_, _, _, _)
BigDivSmallAt(a, d, i, rem) ==
    IF i = 0 THEN <<>>
    ELSE LET cur == rem * Base + a[i]
         IN  BigDivSmallAt(a, d, i - 1, cur % d) \o <<cur \div d>>

(* floor(a / d) for a digit-sized divisor d *)
BigDivSmall(a, d) == BigNormalize(BigDivSmallAt(a, d, Len(a), 0))

(* floor(a / 2^k) *)
BigShr(a, k) ==
    IF k \div 15 >= Len(a) THEN <<>>
    ELSE BigDivSmall(SubSeq(a, (k \div 15) + 1, Len(a)), 2^(k % 15))

RECURSIVE BitLen(_)
BitLen(n) == IF n = 0 THEN 0 ELSE 1 + BitLen(n \div 2)

BigBitLen(a) ==
    IF a = <<>> THEN 0 ELSE 15 * (Len(a) - 1) + BitLen(a[Len(a)])

BigIsOdd(a) == a # <<>> /\ a[1] % 2 = 1

---------------------------------------------------------------------------
(* IEEE-754 doubles that are not integers: [m, e] stands for m / 2^e.     *)

BigOne == <<1>>

(* q = floor(n / d); the quotient n / d rounded to nearest, ties to even *)
RoundTiesEven(n, q, d) ==
    LET twiceN == BigShl(n, 1)
        mid    == BigMul(BigAdd(BigShl(q, 1), BigOne), d)
    IN  IF BigLess(mid, twiceN) \/ (mid = twiceN /\ BigIsOdd(q))
        THEN BigAdd(q, BigOne)
        ELSE q

RECURSIVE BinaryExponent(_, _, _)
BinaryExponent(num, den, k) ==
    IF num * (2^k) >= den THEN k ELSE BinaryExponent(num, den, k + 1)

(* The Number denoted by the decimal literal num/den, 0 < num/den < 2:    *)
(* the nearest double, with a 53-bit significand.                          *)
DoubleOfDecimal(num, den) ==
    LET e == 52 + BinaryExponent(num, den, 0)
        n == BigShl(BigFromInt(num), e)
        q == BigDivSmall(n, den)
    IN  [m |-> RoundTiesEven(n, q, BigFromInt(den)), e |-> e]

(* t * x in double arithmetic, t an integer and x a double: the exact     *)
(* product rounded to 53 significant bits.                                 *)
DoubleMulInt(t, x) ==
    LET n == BigMul(BigFromInt(t), x.m)
        l == BigBitLen(n)
    IN  IF l <= 53
        THEN [m |-> n, e |-> x.e]
        ELSE LET s == l - 53
                 q == BigShr(n, s)
             IN  [m |-> RoundTiesEven(n, q, BigShl(BigOne, s)), e |-> x.e - s]

(* d < x for an integer d and a double x *)
IntLessDouble(d, x) == BigLess(BigShl(BigFromInt(d), x.e), x.m)

---------------------------------------------------------------------------
(* Math.round of a quotient and of a square root, in exact arithmetic.    *)
(* Math.round rounds halves up: round(x) is the largest n with            *)
(* n - 1/2 <= x.                                                           *)

SearchMax == 2 * (2^30 - 1)

Pow2Capped(u) == IF u >= 30 THEN SearchMax ELSE 2^u

RoundFracHolds(n, p, q) ==
    BigLeq(BigMul(BigShl(BigFromInt(n), 1), q), BigAdd(BigShl(p, 1), q))

RECURSIVE RoundFracSearch(_, _, _, _)
RoundFracSearch(lo, hi, p, q) ==
    IF lo = hi THEN lo
    ELSE LET mid == lo + ((hi - lo + 1) \div 2)
         IN  IF RoundFracHolds(mid, p, q)
             THEN RoundFracSearch(mid, hi, p, q)
             ELSE RoundFracSearch(lo, mid - 1, p, q)

(* Math.round(p / q), p >= 0, q > 0 *)
RoundFrac(p, q) ==
    LET u == BigBitLen(p) - BigBitLen(q) + 1
    IN  IF u <= 0 THEN RoundFracSearch(0, 1, p, q)
        ELSE RoundFracSearch(0, Pow2Capped(u), p, q)

RoundSqrtHolds(n, p, q) ==
    n = 0 \/ BigLeq(BigMul(BigAdd(BigShl(BigMul(BigFromInt(n), BigFromInt(n - 1)), 2),
                                  BigOne), q),
                    BigShl(p, 2))

RECURSIVE RoundSqrtSearch(_, _, _, _)
RoundSqrtSearch(lo, hi, p, q) ==
    IF lo = hi THEN lo
    ELSE LET mid == lo + ((hi - lo + 1) \div 2)
         IN  IF RoundSqrtHolds(mid, p, q)
             THEN RoundSqrtSearch(mid, hi, p, q)
             ELSE RoundSqrtSearch(lo, mid - 1, p, q)

(* Math.round(Math.sqrt(p / q)), p >= 0, q > 0 *)
RoundSqrt(p, q) ==
    LET u == BigBitLen(p) - BigBitLen(q) + 1
    IN  IF u <= 0 THEN RoundSqrtSearch(0, 1, p, q)
        ELSE RoundSqrtSearch(0, Pow2Capped((u + 1) \div 2), p, q)

---------------------------------------------------------------------------
(* ImageGenerator: pure helpers                                            *)

Max(a, b) == IF a >= b THEN a ELSE b
Min(a, b) == IF a <= b THEN a ELSE b

Undefined == "undefined"

(* String.prototype.toLowerCase on the format strings of the model *)
toLowerCase(s) ==
    CASE s = "JPG"  -> "jpg"
      [] s = "JPEG" -> "jpeg"
      [] s = "PNG"  -> "png"
      [] s = "GIF"  -> "gif"
      [] OTHER      -> s

supportedFormats == {"jpg", "jpeg", "png"}

isFormatSupported(format) == toLowerCase(format) \in supportedFormats

isJpegFamily(format) ==
    toLowerCase(format) = "jpg" \/ toLowerCase(format) = "jpeg"

maxDimension == 32767

(* Megabyte amounts are held as multiples of 1/MBScale MB, so that the    *)
(* byte count mb * 1024 * 1024 is an integer multiple of 16.              *)
MBScale == 2^16

mbToBytes(mb) == mb * ((1024 * 1024) \div MBScale)

getImageSize(buffer) == buffer.length

(* compression factors with those of jpg and png exchanged *)
compressionFactorsSwapped(format) ==
    CASE format = "jpg"  -> [num |-> 6, den |-> 5]
      [] format = "jpeg" -> [num |-> 6, den |-> 5]
      [] format = "png"  -> [num |-> 3, den |-> 2]
      [] OTHER           -> [num |-> 3, den |-> 2]

(* bytes per pixel assumed for each format, as fractions: 1.5 and 1.2 *)
compressionFactors(format) ==
    CASE format = "jpg"  -> [num |-> 3, den |-> 2]
      [] format = "jpeg" -> [num |-> 3, den |-> 2]
      [] format = "png"  -> [num |-> 6, den |-> 5]
      [] OTHER           -> [num |-> 3, den |-> 2]

(* a 4:3 canvas *)
aspectRatioFourThirds == [num |-> 4, den |-> 3]

aspectRatio == [num |-> 16, den |-> 9]

(* an estimate that skips the rescaling to the pixel ceiling *)
estimateInitialDimensionsUnclamped(targetSizeBytes, format) ==
    LET factor      == compressionFactors(toLowerCase(format))
        pixelsNum   == BigMul(BigFromInt(targetSizeBytes), BigFromInt(factor.den))
        pixelsDen   == BigFromInt(factor.num)
        width  == RoundSqrt(BigMul(pixelsNum, BigFromInt(aspectRatio.num)),
                            BigMul(pixelsDen, BigFromInt(aspectRatio.den)))
        height == RoundSqrt(BigMul(pixelsNum, BigFromInt(aspectRatio.den)),
                            BigMul(pixelsDen, BigFromInt(aspectRatio.num)))
    IN  [width |-> Max(width, 100), height |-> Max(height, 56)]

estimateInitialDimensions(targetSizeBytes, format) ==
    LET factor      == compressionFactors(toLowerCase(format))
        (* estimatedPixels = targetSizeBytes / factor *)
        pixelsNum   == BigMul(BigFromInt(targetSizeBytes), BigFromInt(factor.den))
        pixelsDen   == BigFromInt(factor.num)
        (* width = sqrt(estimatedPixels * aspectRatio) *)
        widthSqNum  == BigMul(pixelsNum, BigFromInt(aspectRatio.num))
        widthSqDen  == BigMul(pixelsDen, BigFromInt(aspectRatio.den))
        (* height = estimatedPixels / width = sqrt(estimatedPixels / aspectRatio) *)
        heightSqNum == BigMul(pixelsNum, BigFromInt(aspectRatio.den))
        heightSqDen == BigMul(pixelsDen, BigFromInt(aspectRatio.num))
        maxSq       == BigMul(BigFromInt(maxDimension), BigFromInt(maxDimension))
        tooLarge    == \/ BigLess(BigMul(maxSq, widthSqDen), widthSqNum)
                       \/ BigLess(BigMul(maxSq, heightSqDen), heightSqNum)
        widthGreater == BigLess(BigMul(heightSqNum, widthSqDen),
                                BigMul(widthSqNum, heightSqDen))
        width  == IF tooLarge
                  THEN IF widthGreater
                       THEN maxDimension
                       ELSE Min(RoundFrac(BigFromInt(maxDimension * aspectRatio.num),
                                          BigFromInt(aspectRatio.den)),
                                maxDimension)
                  ELSE RoundSqrt(widthSqNum, widthSqDen)
        height == IF tooLarge
                  THEN IF widthGreater
                       THEN Min(RoundFrac(BigFromInt(maxDimension * aspectRatio.den),
                                          BigFromInt(aspectRatio.num)),
                                maxDimension)
                       ELSE maxDimension
                  ELSE RoundSqrt(heightSqNum, heightSqDen)
    IN  [width |-> Max(width, 100), height |-> Max(height, 56)]

(* Math.round(dimension * Math.sqrt(targetSize / currentSize)) *)
scaleDimension(dimension, targetSize, currentSize) ==
    RoundSqrt(BigMul(BigMul(BigFromInt(dimension), BigFromInt(dimension)),
                     BigFromInt(targetSize)),
              BigFromInt(currentSize))

(* an adjustment that forgets the 50-pixel floor *)
adjustDimensionsNoFloor(currentSize, targetSize, currentWidth, currentHeight) ==
    [width  |-> scaleDimension(currentWidth, targetSize, currentSize),
     height |-> scaleDimension(currentHeight, targetSize, currentSize)]

(* an adjustment that scales each dimension by the size ratio itself *)
adjustDimensionsLinear(currentSize, targetSize, currentWidth, currentHeight) ==
    LET newWidth  == RoundFrac(BigMul(BigFromInt(currentWidth),
                                      BigFromInt(targetSize)),
                               BigFromInt(currentSize))
        newHeight == RoundFrac(BigMul(BigFromInt(currentHeight),
                                      BigFromInt(targetSize)),
                               BigFromInt(currentSize))
    IN  [width |-> Max(newWidth, 50), height |-> Max(newHeight, 50)]

adjustDimensions(currentSize, targetSize, currentWidth, currentHeight) ==
    LET newWidth  == scaleDimension(currentWidth, targetSize, currentSize)
        newHeight == scaleDimension(currentHeight, targetSize, currentSize)
    IN  [width |-> Max(newWidth, 50), height |-> Max(newHeight, 50)]

(* a check that accepts the sizes outside the band *)
isWithinToleranceOutside(actualSize, targetSize, tolerance) ==
    LET difference        == IF actualSize >= targetSize
                             THEN actualSize - targetSize
                             ELSE targetSize - actualSize
        allowedDifference == DoubleMulInt(targetSize, tolerance)
    IN  ~IntLessDouble(difference, allowedDifference)

isWithinTolerance(actualSize, targetSize, tolerance) ==
    LET difference        == IF actualSize >= targetSize
                             THEN actualSize - targetSize
                             ELSE targetSize - actualSize
        allowedDifference == DoubleMulInt(targetSize, tolerance)
    IN  IntLessDouble(difference, allowedDifference)

(* the step table on bytesPerPixel = targetSizeBytes / pixelCount *)
seedQuality(targetSizeBytes, pixelCount) ==
    LET t  == BigFromInt(targetSizeBytes)
        pc1 == BigFromInt(pixelCount)
    IN  IF BigLess(BigShl(pc1, 1), t) THEN 100
        ELSE IF BigLess(BigMulDigit(pc1, 3, 0), BigShl(t, 1)) THEN 95
        ELSE IF BigLess(pc1, t) THEN 90
        ELSE IF BigLess(pc1, BigShl(t, 1)) THEN 80
        ELSE 70

(* a ceiling check that lets oversized dimensions through *)
ceilingCheckNoClamp(w, h, q, format, targetSizeBytes) ==
    [width |-> w, height |-> h, quality |-> q]

(* the ceiling check at the head of each loop iteration *)
ceilingCheck(w, h, q, format, targetSizeBytes) ==
    IF w > maxDimension \/ h > maxDimension
    THEN LET cw == IF w > h
                   THEN maxDimension
                   ELSE RoundFrac(BigMul(BigFromInt(maxDimension), BigFromInt(w)),
                                  BigFromInt(h))
             ch == IF w > h
                   THEN RoundFrac(BigMul(BigFromInt(maxDimension), BigFromInt(h)),
                                  BigFromInt(w))
                   ELSE maxDimension
             w2 == Min(cw, maxDimension)
             h2 == Min(ch, maxDimension)
         IN  [width |-> w2, height |-> h2,
              quality |-> IF isJpegFamily(format)
                          THEN seedQuality(targetSizeBytes, w2 * h2)
                          ELSE q]
    ELSE [width |-> w, height |-> h, quality |-> q]

(* an adjustment that enters the quality regime only beyond the ceiling *)
adjustAfterRenderStrict(w, h, q, format, actualSize, targetSizeBytes) ==
    IF (w > maxDimension \/ h > maxDimension) /\ isJpegFamily(format)
    THEN [width |-> w, height |-> h,
          quality |-> IF actualSize < targetSizeBytes
                      THEN Min(100, q + 5)
                      ELSE Max(10, q - 5)]
    ELSE LET newDimensions == adjustDimensions(actualSize, targetSizeBytes, w, h)
         IN  [width |-> newDimensions.width, height |-> newDimensions.height,
              quality |-> q]

(* an adjustment whose quality steps are not held within 10..100 *)
adjustAfterRenderUnbounded(w, h, q, format, actualSize, targetSizeBytes) ==
    IF (w >= maxDimension \/ h >= maxDimension) /\ isJpegFamily(format)
    THEN [width |-> w, height |-> h,
          quality |-> IF actualSize < targetSizeBytes THEN q + 5 ELSE q - 5]
    ELSE LET newDimensions == adjustDimensions(actualSize, targetSizeBytes, w, h)
         IN  [width |-> newDimensions.width, height |-> newDimensions.height,
              quality |-> q]

(* an adjustment that also steps the quality when it changes dimensions *)
adjustAfterRenderQualityToo(w, h, q, format, actualSize, targetSizeBytes) ==
    LET step == IF actualSize < targetSizeBytes
                THEN Min(100, q + 5)
                ELSE Max(10, q - 5)
    IN  IF (w >= maxDimension \/ h >= maxDimension) /\ isJpegFamily(format)
        THEN [width |-> w, height |-> h, quality |-> step]
        ELSE LET newDimensions == adjustDimensions(actualSize, targetSizeBytes, w, h)
             IN  [width |-> newDimensions.width, height |-> newDimensions.height,
                  quality |-> step]

(* the adjustment after a rejected render *)
adjustAfterRender(w, h, q, format, actualSize, targetSizeBytes) ==
    IF (w >= maxDimension \/ h >= maxDimension) /\ isJpegFamily(format)
    THEN [width |-> w, height |-> h,
          quality |-> IF actualSize < targetSizeBytes
                      THEN Min(100, q + 5)
                      ELSE Max(10, q - 5)]
    ELSE LET newDimensions == adjustDimensions(actualSize, targetSizeBytes, w, h)
         IN  [width |-> newDimensions.width, height |-> newDimensions.height,
              quality |-> q]

(* the message of the Error validateDimensions throws, if it throws *)
validateDimensions(w, h) ==
    IF w <= 0 \/ h <= 0 THEN "Image dimensions must be positive numbers"
    ELSE IF w > 32767 \/ h > 32767 THEN "Image dimensions too large"
    ELSE "none"

(* errors generateImageWithText can reject with after its validation:     *)
(* Jimp.loadFont and getBufferAsync fail                                   *)
RendererErrors == {"loadFont failed", "getBufferAsync failed"}

AllRendererErrors ==
    RendererErrors \cup {"Image dimensions must be positive numbers",
                         "Image dimensions too large"}

(* the errors a render of w x h can reject with *)
rendererFailures(w, h) ==
    IF validateDimensions(w, h) # "none"
    THEN {validateDimensions(w, h)}
    ELSE RendererErrors

---------------------------------------------------------------------------
(* ImageGenerator.generateImageWithTargetSize as a state machine           *)

VARIABLES
    pc,              \* "idle", "loop", "render", "exit", "returned", "failed"
    config,          \* the argument of the call
    targetSizeBytes,
    width, height,
    iteration,
    buffer,          \* the last buffer received from the renderer
    actualSize,
    quality,
    warned,          \* console.warn was called
    error,           \* the error the call was rejected with
    outcome,         \* the object the call resolved with
    renders,         \* history: number of calls of generateImageWithText
    lastRender,      \* history: the arguments of the last such call
    adjustments,     \* history: number of adjustment steps run
    clamps,          \* history: number of ceiling clamps applied
    accepted,        \* history: the loop was left by the break
    ceilingRender,   \* history: arguments of the first render at the ceiling
    thrown,          \* history: the error the renderer rejected with
    seed,            \* history: the estimate the call started from
    estimateTarget,  \* the byte count given to estimateInitialDimensions
    estimates,       \* its results, one per format it was called with
    renderer,        \* the bytes per pixel of a deterministic renderer
    previous,        \* history: configuration and outcome of the call before
    files,           \* the names that exist in the output directory
    upc,             \* generateUniqueFileName: "idle", "first", "loop",
                     \* "done", "failed"
    fileName,        \* its argument
    counter,
    uniqueName,      \* the name it resolved with
    uniqueError,     \* the error it rejected with
    filesAtCall,     \* history: the directory when it was called
    checkedFiles,    \* history: the directory at its last fileExists
    spc,             \* saveImageFile: "idle", "access", "mkdir",
                     \* "permission", "stat", "write", "statFile",
                     \* "resolved", "rejected"
    saveError,       \* the error it rejected with
    failedStep,      \* history: the step whose failure rejected it
    writes,          \* history: number of calls of fs.writeFile
    adjustCall,      \* the arguments of a direct call of adjustDimensions
    adjusted,        \* what that call returned
    requested,       \* the file name two concurrent runs both ask for
    runs,            \* per run: position, counter, the name found unique
    written,         \* history: for each file written, the run that wrote
                     \* it last
    overwritten      \* history: a run wrote over the file of the other run

vars == <<pc, config, targetSizeBytes, width, height, iteration, buffer,
          actualSize, quality, warned, error, outcome, renders, lastRender,
          adjustments, clamps, accepted, ceilingRender, thrown, seed,
          estimateTarget, estimates, renderer, previous,
          files, upc, fileName, counter, uniqueName, uniqueError,
          filesAtCall, checkedFiles, spc, saveError, failedStep, writes,
          adjustCall, adjusted, requested, runs, written, overwritten>>

estimateVars == <<estimateTarget, estimates>>

adjustVars == <<adjustCall, adjusted>>

raceVars == <<requested, runs, written, overwritten>>

sessionVars == <<renderer, previous>>

uniqueVars == <<upc, fileName, counter, uniqueName, uniqueError,
                filesAtCall, checkedFiles>>

saveVars == <<spc, saveError, failedStep, writes>>

fileVars == <<files, uniqueVars, saveVars>>

None == "none"

(* values of the variables before they are first assigned *)
NoConfig  == [targetSizeMB |-> 0, format |-> "", maxIterations |-> 0,
              tolerance |-> [num |-> 1, den |-> 2]]
NoBuffer  == [render |-> 0, length |-> 0]
NoRender  == [width |-> 0, height |-> 0, quality |-> 0]
NoOutcome == [iterations |-> 0]
NoDimensions == [width |-> 0, height |-> 0]
NoThrow   == [error |-> None, render |-> 0]
NoRenderer == [num |-> 0, den |-> 1]
NoPrevious == [config |-> NoConfig, outcome |-> NoOutcome,
               seed |-> NoDimensions]

(* bounds of the model *)
MaxIterationsBound == 3

(* target sizes in 1/MBScale MB: 1 KB, 25 KB, 1 MB, 1000 MB, and two     *)
(* invalid ones                                                            *)
TargetSizesMB == {64, 1600, 65536, 65536000, 0, -65536}

Formats == {"jpg", "JPEG", "png", "gif"}

(* tolerances as the decimal literals the caller writes: 0.05 and 0.07 *)
Tolerances == {[num |-> 5, den |-> 100], [num |-> 7, den |-> 100]}

Configs ==
    [targetSizeMB : TargetSizesMB, format : Formats,
     maxIterations : 1..MaxIterationsBound, tolerance : Tolerances]

toleranceNumber(tolerance) == DoubleOfDecimal(tolerance.num, tolerance.den)

(* floor(t * num / den): the width of the tolerance band in whole bytes *)
bandWidth(t, tolerance) ==
    BigToInt(BigDivSmall(BigMulDigit(BigFromInt(t), tolerance.num, 0),
                         tolerance.den))

SmallTarget == 2^21

(* byte lengths the renderer may return for a target of t bytes: far too  *)
(* small, too small, on and just inside the edges of the tolerance band,   *)
(* exact, too large and, for small targets, far too large, for the others  *)
(* an eighth too small                                                     *)
RenderSizes(t, tolerance) ==
    LET b == bandWidth(t, tolerance)
    IN  {1, t \div 4, t - b, t, t + b - 1, t + b, 2 * t}
        \cup (IF t <= SmallTarget THEN {512 * t} ELSE {7 * (t \div 8)})

EstimateFormats == {"jpg", "jpeg", "png"}

CallInit ==
    /\ pc = "idle"
    /\ config = NoConfig
    /\ targetSizeBytes = 0
    /\ width = 0
    /\ height = 0
    /\ iteration = 0
    /\ buffer = NoBuffer
    /\ actualSize = 0
    /\ quality = 0
    /\ warned = FALSE
    /\ error = None
    /\ outcome = NoOutcome
    /\ renders = 0
    /\ lastRender = NoRender
    /\ adjustments = 0
    /\ clamps = 0
    /\ accepted = FALSE
    /\ ceilingRender = NoRender
    /\ thrown = NoThrow
    /\ seed = NoDimensions

NoAdjustCall == [currentSize |-> 0, targetSize |-> 0,
                 currentWidth |-> 0, currentHeight |-> 0]

(* adjustDimensions has not been called directly *)
AdjustIdle ==
    /\ adjustCall = NoAdjustCall
    /\ adjusted = NoDimensions

(* the two runs *)
Runs == {1, 2}

NoRun == [pc |-> "idle", counter |-> 0, uniqueName |-> <<>>]

(* no run has started *)
RaceIdle ==
    /\ requested = <<>>
    /\ runs = [r \in Runs |-> NoRun]
    /\ written = {}
    /\ overwritten = FALSE

NoError == [name |-> "", message |-> "", code |-> ""]
NoName  == <<>>
EmptyDirectory == [listed |-> {}, dense |-> 0]

(* neither file function has been called *)
FileIdle ==
    /\ upc = "idle"
    /\ fileName = NoName
    /\ counter = 0
    /\ uniqueName = NoName
    /\ uniqueError = NoError
    /\ filesAtCall = EmptyDirectory
    /\ checkedFiles = EmptyDirectory
    /\ spc = "idle"
    /\ saveError = NoError
    /\ failedStep = ""
    /\ writes = 0

(* the renderer is whatever generateImageWithText does: any size *)
SessionInit ==
    /\ renderer = NoRenderer
    /\ previous = NoPrevious
    /\ files = EmptyDirectory
    /\ FileIdle

Init ==
    /\ CallInit
    /\ AdjustIdle
    /\ RaceIdle
    /\ estimateTarget = 0
    /\ estimates = [f \in EstimateFormats |-> NoDimensions]
    /\ SessionInit

(* a validation that forgets the format *)
validationErrorSizeOnly(cfg) ==
    IF cfg.targetSizeMB <= 0 THEN "Target size must be greater than 0"
    ELSE None

validationError(cfg) ==
    IF cfg.targetSizeMB <= 0 THEN "Target size must be greater than 0"
    ELSE IF ~isFormatSupported(cfg.format) THEN "Unsupported format"
    ELSE None

(* line 357 with the counter of the call before left in place *)
firstIterationCarried == iteration

(* line 357: let iteration = 0 *)
firstIteration == 0

(* lines 325-360: destructuring, validation, estimate, loop variables *)
Enter(cfg) ==
    /\ config' = cfg
    /\ IF validationError(cfg) # None
       THEN /\ pc' = "failed"
            /\ error' = validationError(cfg)
            /\ UNCHANGED <<targetSizeBytes, width, height, iteration, quality,
                           seed>>
       ELSE LET bytes == mbToBytes(cfg.targetSizeMB)
                dims  == estimateInitialDimensions(bytes, cfg.format)
            IN  /\ pc' = "loop"
                /\ targetSizeBytes' = bytes
                /\ seed' = dims
                /\ width' = dims.width
                /\ height' = dims.height
                /\ iteration' = firstIteration
                /\ quality' = 90
                /\ error' = error

(* the first call of generateImageWithTargetSize on the object *)
Call(cfg) ==
    /\ pc = "idle"
    /\ Enter(cfg)
    /\ UNCHANGED <<buffer, actualSize, warned, outcome, renders, lastRender,
                   adjustments, clamps, accepted, ceilingRender, thrown>>
    /\ UNCHANGED <<estimateVars, adjustVars, raceVars, sessionVars, fileVars>>

(* a loop guard that allows one iteration too many *)
loopContinuesOnceMore(i, maxIterations) == i <= maxIterations

loopContinues(i, maxIterations) == i < maxIterations

(* lines 363-410: loop test, ceiling check, call of the renderer *)
StartRender ==
    /\ pc = "loop"
    /\ loopContinues(iteration, config.maxIterations)
    /\ LET c == ceilingCheck(width, height, quality, config.format, targetSizeBytes)
           args == [width |-> c.width, height |-> c.height, quality |-> c.quality]
       IN  /\ width' = c.width
           /\ height' = c.height
           /\ quality' = c.quality
           /\ clamps' = IF width > maxDimension \/ height > maxDimension
                        THEN clamps + 1 ELSE clamps
           /\ lastRender' = args
           /\ ceilingRender' =
                 IF ceilingRender = NoRender
                    /\ (c.width = maxDimension \/ c.height = maxDimension)
                 THEN args ELSE ceilingRender
    /\ renders' = renders + 1
    /\ pc' = "render"
    /\ UNCHANGED <<config, targetSizeBytes, iteration, buffer, actualSize,
                   warned, error, outcome, adjustments, accepted, thrown,
                   seed>>
    /\ UNCHANGED <<estimateVars, adjustVars, raceVars, sessionVars, fileVars>>

(* lines 402-444: the renderer resolves with a buffer of size bytes *)
RenderReturns(size) ==
    /\ pc = "render"
    /\ validateDimensions(lastRender.width, lastRender.height) = "none"
    /\ buffer' = [render |-> renders, length |-> size]
    /\ actualSize' = getImageSize(buffer')
    /\ IF isWithinTolerance(size, targetSizeBytes, toleranceNumber(config.tolerance))
       THEN /\ pc' = "exit"
            /\ accepted' = TRUE
            /\ UNCHANGED <<width, height, quality, iteration, adjustments>>
       ELSE LET a == adjustAfterRender(width, height, quality, config.format,
                                       size, targetSizeBytes)
            IN  /\ width' = a.width
                /\ height' = a.height
                /\ quality' = a.quality
                /\ iteration' = iteration + 1
                /\ adjustments' = adjustments + 1
                /\ pc' = "loop"
                /\ accepted' = accepted
    /\ UNCHANGED <<config, targetSizeBytes, warned, error, outcome, renders,
                   lastRender, clamps, ceilingRender, thrown, seed>>
    /\ UNCHANGED <<estimateVars, adjustVars, raceVars, sessionVars, fileVars>>

(* a rejection that is caught and replaced by an error of the core *)
rejectionWrapped(e) == "Image generation failed"

(* line 402: no try/catch encloses the await, so the call rejects with    *)
(* the very error the renderer rejected with                               *)
rejection(e) == e

(* line 402: the renderer rejects with e *)
RenderThrows(e) ==
    /\ pc = "render"
    /\ e \in rendererFailures(lastRender.width, lastRender.height)
    /\ pc' = "failed"
    /\ error' = rejection(e)
    /\ thrown' = [error |-> e, render |-> renders]
    /\ UNCHANGED <<config, targetSizeBytes, width, height, iteration, buffer,
                   actualSize, quality, warned, outcome, renders, lastRender,
                   adjustments, clamps, accepted, ceilingRender, seed>>
    /\ UNCHANGED <<estimateVars, adjustVars, raceVars, sessionVars, fileVars>>

(* a return that discards the result when the budget is exhausted *)
makeOutcomeDiscarding(buf, w, h, size, cfg, i, q) ==
    [buffer          |-> IF i >= cfg.maxIterations THEN NoBuffer ELSE buf,
     width           |-> w,
     height          |-> h,
     actualSizeBytes |-> IF i >= cfg.maxIterations THEN 0 ELSE size,
     targetSizeMB    |-> cfg.targetSizeMB,
     iterations      |-> i + 1,
     format          |-> cfg.format,
     quality         |-> IF isJpegFamily(cfg.format) THEN q ELSE Undefined]

makeOutcome(buf, w, h, size, cfg, i, q) ==
    [buffer          |-> buf,
     width           |-> w,
     height          |-> h,
     actualSizeBytes |-> size,
     targetSizeMB    |-> cfg.targetSizeMB,
     iterations      |-> i + 1,
     format          |-> cfg.format,
     quality         |-> IF isJpegFamily(cfg.format) THEN q ELSE Undefined]

(* a test that already counts the render being made *)
reachedMaximumEarly(i, maxIterations) == i + 1 >= maxIterations

(* line 447: the condition of the warning *)
reachedMaximum(i, maxIterations) == i >= maxIterations

(* lines 446-467: the warning and the returned object *)
Return ==
    /\ \/ pc = "exit"
       \/ pc = "loop" /\ ~loopContinues(iteration, config.maxIterations)
    /\ warned' = reachedMaximum(iteration, config.maxIterations)
    /\ outcome' = makeOutcome(buffer, width, height, actualSize, config,
                              iteration, quality)
    /\ pc' = "returned"
    /\ UNCHANGED <<config, targetSizeBytes, width, height, iteration, buffer,
                   actualSize, quality, error, renders, lastRender,
                   adjustments, clamps, accepted, ceilingRender, thrown,
                   seed>>
    /\ UNCHANGED <<estimateVars, adjustVars, raceVars, sessionVars, fileVars>>

Next ==
    \/ \E cfg \in Configs : Call(cfg)
    \/ StartRender
    \/ /\ pc = "render"
       /\ \E size \in RenderSizes(targetSizeBytes, config.tolerance) :
              RenderReturns(size)
    \/ \E e \in AllRendererErrors : RenderThrows(e)
    \/ Return

Spec == Init /\ [][Next]_vars

---------------------------------------------------------------------------
(* Two calls in a row against a deterministic renderer whose encoded size *)
(* is Math.floor(width * height * c), as the canvas mock of the tests      *)

(* line 331: maxIterations = 20 *)
DefaultMaxIterations == 20

(* line 332: tolerance = 0.05 *)
DefaultTolerance == [num |-> 5, den |-> 100]

(* bytes per pixel of the renderers: 0.1 as in the tests, 1.4, 3 *)
MockRenderers ==
    {[num |-> 1, den |-> 10], [num |-> 14, den |-> 10], [num |-> 3, den |-> 1]}

(* Math.floor(width * height * c) in double arithmetic *)
mockSize(c, w, h) ==
    IF c.den = 1 THEN w * h * c.num
    ELSE LET product == DoubleMulInt(w * h, DoubleOfDecimal(c.num, c.den))
         IN  BigToInt(BigShr(product.m, product.e))

(* target sizes in 1/MBScale MB: 1 KB, 25 KB, 1 MB, 2 MB, 1000 MB *)
MockTargetSizesMB == {64, 1600, 65536, 131072, 65536000}

MockIterationBudgets == {2, DefaultMaxIterations}

(* the tolerances of the tests and the default: 0.01, 0.05, 0.2 *)
MockTolerances ==
    {[num |-> 1, den |-> 100], DefaultTolerance, [num |-> 2, den |-> 10]}

MockConfigs ==
    [targetSizeMB : MockTargetSizesMB, format : {"jpg", "png"},
     maxIterations : MockIterationBudgets, tolerance : MockTolerances]

(* cfg differs from the configuration of the running call at most in its  *)
(* tolerance                                                               *)
SameButTolerance(cfg) ==
    /\ cfg.targetSizeMB = config.targetSizeMB
    /\ cfg.format = config.format
    /\ cfg.maxIterations = config.maxIterations

MockInit ==
    /\ CallInit
    /\ AdjustIdle
    /\ RaceIdle
    /\ estimateTarget = 0
    /\ estimates = [f \in EstimateFormats |-> NoDimensions]
    /\ renderer \in MockRenderers
    /\ previous = NoPrevious
    /\ files = EmptyDirectory
    /\ FileIdle

(* lines 402-444 with the deterministic renderer *)
MockRenderReturns ==
    /\ renderer # NoRenderer
    /\ RenderReturns(mockSize(renderer, lastRender.width, lastRender.height))

(* a second call on the same object after the first has returned: every   *)
(* variable of the function is a fresh local of the new call               *)
CallAgain(cfg) ==
    /\ pc = "returned"
    /\ previous = NoPrevious
    /\ previous' = [config |-> config, outcome |-> outcome, seed |-> seed]
    /\ Enter(cfg)
    /\ buffer' = NoBuffer
    /\ actualSize' = 0
    /\ warned' = FALSE
    /\ outcome' = NoOutcome
    /\ renders' = 0
    /\ lastRender' = NoRender
    /\ adjustments' = 0
    /\ clamps' = 0
    /\ accepted' = FALSE
    /\ ceilingRender' = NoRender
    /\ UNCHANGED <<thrown, estimateVars, adjustVars, raceVars, renderer, fileVars>>

MockNext ==
    \/ \E cfg \in MockConfigs : Call(cfg)
    \/ StartRender
    \/ MockRenderReturns
    \/ Return
    \/ \E cfg \in {c \in MockConfigs : SameButTolerance(c)} : CallAgain(cfg)

MockSpec == MockInit /\ [][MockNext]_vars

---------------------------------------------------------------------------
(* ImageGenerator.estimateInitialDimensions called on its own              *)

callVars == <<pc, config, targetSizeBytes, width, height, iteration, buffer,
              actualSize, quality, warned, error, outcome, renders,
              lastRender, adjustments, clamps, accepted, ceilingRender,
              thrown, seed>>

(* bounds of the estimator's inputs *)
MaxShift == 26

Mantissas == {1, 3, 5, 7}

(* target byte counts 16 * m * 2^j below 2^31, from 16 bytes to 1.9 GB *)
EstimateTargets ==
    UNION {{16 * m * (2^j) : m \in {x \in Mantissas : x * (2^j) < 2^27}} :
           j \in 0..MaxShift}

EstimateInit ==
    /\ CallInit
    /\ AdjustIdle
    /\ RaceIdle
    /\ estimateTarget \in EstimateTargets
    /\ estimates = [f \in EstimateFormats |-> NoDimensions]
    /\ SessionInit

Estimate(format) ==
    /\ estimates[format] = NoDimensions
    /\ estimates' = [estimates EXCEPT
                        ![format] = estimateInitialDimensions(estimateTarget, format)]
    /\ UNCHANGED <<estimateTarget, adjustVars, raceVars, callVars, sessionVars, fileVars>>

EstimateNext == \E format \in EstimateFormats : Estimate(format)

EstimateSpec == EstimateInit /\ [][EstimateNext]_vars

---------------------------------------------------------------------------
(* fileUtils: generateUniqueFileName and saveImageFile                     *)
(* A file name is a sequence of characters.  A directory is the set of     *)
(* names in it: those listed, and the numbered copies 1..dense of          *)
(* DenseBase.                                                              *)

FileSystemError(message, code) ==
    [name |-> "FileSystemError", message |-> message, code |-> code]

(* an error of the fs module *)
SystemError(code) == [name |-> "Error", message |-> code, code |-> code]

DigitChars == <<"0", "1", "2", "3", "4", "5", "6", "7", "8", "9">>

(* String(n), n >= 0 *)
RECURSIVE decimal(_)
decimal(n) ==
    IF n < 10 THEN <<DigitChars[n + 1]>>
    ELSE decimal(n \div 10) \o <<DigitChars[(n % 10) + 1]>>

(* the last index of character ch in f, 0 if there is none *)
lastIndexOf(f, ch) ==
    LET at == {i \in 1..Len(f) : f[i] = ch}
    IN  IF at = {} THEN 0 ELSE CHOOSE i \in at : \A j \in at : j <= i

(* path.parse of a name without directories: the extension starts at the  *)
(* last dot, unless that dot is the first character                        *)
pathParse(f) ==
    LET dot == lastIndexOf(f, ".")
    IN  IF dot <= 1 THEN [name |-> f, ext |-> <<>>]
        ELSE [name |-> SubSeq(f, 1, dot - 1), ext |-> SubSeq(f, dot, Len(f))]

(* line 244: `${parsedPath.name}(${counter})${parsedPath.ext}` *)
numberedName(parsedPath, n) ==
    parsedPath.name \o <<"(">> \o decimal(n) \o <<")">> \o parsedPath.ext

digitOf(ch) ==
    IF \E d \in 0..9 : DigitChars[d + 1] = ch
    THEN CHOOSE d \in 0..9 : DigitChars[d + 1] = ch
    ELSE 0

RECURSIVE digitsValue(_)
digitsValue(digits) ==
    IF digits = <<>> THEN 0
    ELSE 10 * digitsValue(SubSeq(digits, 1, Len(digits) - 1))
         + digitOf(digits[Len(digits)])

(* the number between the last parentheses of f, 0 if there is none *)
numberOf(f) ==
    LET open  == lastIndexOf(f, "(")
        close == lastIndexOf(f, ")")
    IN  IF open = 0 \/ close <= open + 1 \/ close > open + 5 THEN 0
        ELSE digitsValue(SubSeq(f, open + 1, close - 1))

DenseBase == <<"i", "m", "g", ".", "j", "p", "g">>

(* fs.access(path) resolves *)
existsIn(directory, f) ==
    \/ f \in directory.listed
    \/ LET n == numberOf(f)
       IN  /\ 1 <= n /\ n <= directory.dense
           /\ f = numberedName(pathParse(DenseBase), n)

(* lines 218-225 *)
fileExists(f) == existsIn(files, f)

(* a counter that starts after the number of files already listed *)
firstCounterAfterListed == Cardinality(files.listed) + 1

(* line 241: let counter = 1 *)
firstCounter == 1

(* line 254: the last counter tried *)
maxCounter == 9999

(* names given to generateUniqueFileName *)
FileNames == {DenseBase, <<"i", "m", "g">>}

(* the names that may exist in the directory or be created meanwhile *)
CandidateNames ==
    FileNames \cup {numberedName(pathParse(f), n) : f \in FileNames, n \in 1..2}

(* directories: any candidates, or img.jpg with all but the last or all   *)
(* of its numbered copies                                                  *)
Directories ==
    [listed : SUBSET CandidateNames, dense : {0}]
    \cup [listed : {{DenseBase}}, dense : {maxCounter - 1, maxCounter}]

(* lines 233-238 *)
UniqueCall(f) ==
    /\ upc = "idle"
    /\ fileName' = f
    /\ filesAtCall' = files
    /\ upc' = "first"
    /\ UNCHANGED <<counter, uniqueName, uniqueError, checkedFiles>>
    /\ UNCHANGED <<files, saveVars, callVars, estimateVars, adjustVars, raceVars,
                   renderer, previous>>

(* lines 236-241: the check of the name itself *)
CheckOriginal ==
    /\ upc = "first"
    /\ checkedFiles' = files
    /\ IF ~fileExists(fileName)
       THEN /\ uniqueName' = fileName
            /\ upc' = "done"
            /\ UNCHANGED counter
       ELSE /\ counter' = firstCounter
            /\ upc' = "loop"
            /\ UNCHANGED uniqueName
    /\ UNCHANGED <<fileName, uniqueError, filesAtCall>>
    /\ UNCHANGED <<files, saveVars, callVars, estimateVars, adjustVars, raceVars,
                   renderer, previous>>

(* lines 243-257: one turn of the loop *)
CheckCandidate ==
    /\ upc = "loop"
    /\ checkedFiles' = files
    /\ LET newFileName == numberedName(pathParse(fileName), counter)
       IN  IF ~fileExists(newFileName)
           THEN /\ uniqueName' = newFileName
                /\ upc' = "done"
                /\ UNCHANGED <<counter, uniqueError>>
           ELSE /\ counter' = counter + 1
                /\ IF counter + 1 > maxCounter
                   THEN /\ upc' = "failed"
                        /\ uniqueError' =
                              FileSystemError("cannot generate a unique file name",
                                              Undefined)
                   ELSE /\ upc' = "loop"
                        /\ UNCHANGED uniqueError
                /\ UNCHANGED uniqueName
    /\ UNCHANGED <<fileName, filesAtCall>>
    /\ UNCHANGED <<files, saveVars, callVars, estimateVars, adjustVars, raceVars,
                   renderer, previous>>

(* another process creates, between two awaits, a file whose name the    *)
(* running call asks about                                                 *)
OtherProcessCreates(f) ==
    /\ upc \in {"first", "loop"}
    /\ f \in {fileName} \cup {numberedName(pathParse(fileName), n) : n \in 1..2}
    /\ ~fileExists(f)
    /\ files' = [files EXCEPT !.listed = @ \cup {f}]
    /\ UNCHANGED <<uniqueVars, saveVars, callVars, estimateVars, adjustVars, raceVars,
                   renderer, previous>>

(* a catch block that rethrows whatever it caught *)
saveImageFileCatchRethrow(e) == e

(* lines 168-187: the catch block of saveImageFile *)
saveImageFileCatch(e) ==
    IF e.name = "FileSystemError" \/ e.name = "FileNameValidationError"
    THEN e
    ELSE CASE e.code = "ENOSPC" -> FileSystemError("disk full", e.code)
           [] e.code = "EACCES" -> FileSystemError("no permission to write", e.code)
           [] e.code = "EEXIST" -> FileSystemError("file exists", e.code)
           [] OTHER             -> FileSystemError("saving failed", e.code)

(* saveImageFile rejects with what its catch block throws for e *)
SaveRejects(step, e) ==
    /\ spc' = "rejected"
    /\ saveError' = saveImageFileCatch(e)
    /\ failedStep' = step

(* line 140: saveImageFile is called with the name found unique *)
SaveCall ==
    /\ spc = "idle"
    /\ upc = "done"
    /\ spc' = "access"
    /\ UNCHANGED <<saveError, failedStep, writes>>
    /\ UNCHANGED <<files, uniqueVars, callVars, estimateVars, adjustVars, raceVars,
                   renderer, previous>>

(* lines 102-117: fs.access(outputDir) in ensureOutputDirectory *)
SaveAccess(r) ==
    /\ spc = "access"
    /\ IF r = "ok"
       THEN spc' = "permission" /\ UNCHANGED <<saveError, failedStep>>
       ELSE IF r = "ENOENT"
       THEN spc' = "mkdir" /\ UNCHANGED <<saveError, failedStep>>
       ELSE SaveRejects("access",
                        FileSystemError("cannot access the output directory", r))
    /\ UNCHANGED <<writes, files, uniqueVars, callVars, estimateVars, adjustVars, raceVars,
                   renderer, previous>>

(* lines 106-113: fs.mkdir(outputDir, {recursive: true}) *)
SaveMkdir(r) ==
    /\ spc = "mkdir"
    /\ IF r = "ok"
       THEN spc' = "permission" /\ UNCHANGED <<saveError, failedStep>>
       ELSE SaveRejects("mkdir",
                        FileSystemError("cannot create the output directory", r))
    /\ UNCHANGED <<writes, files, uniqueVars, callVars, estimateVars, adjustVars, raceVars,
                   renderer, previous>>

(* lines 124-131, 149: fs.access(dir, W_OK) in checkWritePermission *)
SavePermission(r) ==
    /\ spc = "permission"
    /\ IF r = "ok"
       THEN spc' = "stat" /\ UNCHANGED <<saveError, failedStep>>
       ELSE SaveRejects("permission", FileSystemError("no write permission", r))
    /\ UNCHANGED <<writes, files, uniqueVars, callVars, estimateVars, adjustVars, raceVars,
                   renderer, previous>>

(* lines 152-155: fs.stat(outputDir) and isDirectory *)
SaveStat(r) ==
    /\ spc = "stat"
    /\ IF r = "directory"
       THEN spc' = "write" /\ UNCHANGED <<saveError, failedStep>>
       ELSE IF r = "file"
       THEN SaveRejects("stat",
                        FileSystemError("the output path is not a directory",
                                        "ENOTDIR"))
       ELSE SaveRejects("stat", SystemError(r))
    /\ UNCHANGED <<writes, files, uniqueVars, callVars, estimateVars, adjustVars, raceVars,
                   renderer, previous>>

(* line 158: fs.writeFile(fullPath, imageBuffer) *)
SaveWrite(r) ==
    /\ spc = "write"
    /\ writes' = writes + 1
    /\ IF r = "ok"
       THEN /\ spc' = "statFile"
            /\ files' = [files EXCEPT !.listed = @ \cup {uniqueName}]
            /\ UNCHANGED <<saveError, failedStep>>
       ELSE /\ SaveRejects("write", SystemError(r))
            /\ UNCHANGED files
    /\ UNCHANGED <<uniqueVars, callVars, estimateVars, adjustVars, raceVars,
                   renderer, previous>>

(* lines 161-167: fs.stat(fullPath) and the returned object *)
SaveStatFile(r) ==
    /\ spc = "statFile"
    /\ IF r = "ok"
       THEN spc' = "resolved" /\ UNCHANGED <<saveError, failedStep>>
       ELSE SaveRejects("statFile", SystemError(r))
    /\ UNCHANGED <<writes, files, uniqueVars, callVars, estimateVars, adjustVars, raceVars,
                   renderer, previous>>

FileInit ==
    /\ CallInit
    /\ AdjustIdle
    /\ RaceIdle
    /\ estimateTarget = 0
    /\ estimates = [f \in EstimateFormats |-> NoDimensions]
    /\ renderer = NoRenderer
    /\ previous = NoPrevious
    /\ files \in Directories
    /\ FileIdle

FileNext ==
    \/ \E f \in FileNames : UniqueCall(f)
    \/ CheckOriginal
    \/ CheckCandidate
    \/ \E f \in CandidateNames : OtherProcessCreates(f)
    \/ SaveCall
    \/ \E r \in {"ok", "ENOENT", "EACCES"} : SaveAccess(r)
    \/ \E r \in {"ok", "EACCES"} : SaveMkdir(r)
    \/ \E r \in {"ok", "EACCES"} : SavePermission(r)
    \/ \E r \in {"directory", "file", "ENOENT"} : SaveStat(r)
    \/ \E r \in {"ok", "ENOSPC", "EACCES", "EEXIST", "EIO"} : SaveWrite(r)
    \/ \E r \in {"ok", "ENOENT"} : SaveStatFile(r)

FileSpec == FileInit /\ [][FileNext]_vars

---------------------------------------------------------------------------
(* Two runs, each calling generateUniqueFileName and then saveImageFile    *)
(* for the same file name in the same output directory.  Each await is a   *)
(* point where the other run may proceed.                                  *)

RaceDirectories == [listed : SUBSET CandidateNames, dense : {0}]

RaceInit ==
    /\ CallInit
    /\ AdjustIdle
    /\ estimateTarget = 0
    /\ estimates = [f \in EstimateFormats |-> NoDimensions]
    /\ renderer = NoRenderer
    /\ previous = NoPrevious
    /\ FileIdle
    /\ files \in RaceDirectories
    /\ requested \in FileNames
    /\ runs = [r \in Runs |-> NoRun]
    /\ written = {}
    /\ overwritten = FALSE

raceFrame ==
    UNCHANGED <<requested, uniqueVars, saveVars, callVars, estimateVars,
                adjustVars, renderer, previous>>

(* lines 233-236: the run calls generateUniqueFileName *)
RunUniqueCall(r) ==
    /\ runs[r].pc = "idle"
    /\ runs' = [runs EXCEPT ![r].pc = "first"]
    /\ UNCHANGED <<files, written, overwritten>>
    /\ raceFrame

(* lines 236-241: the check of the name itself *)
RunCheckOriginal(r) ==
    /\ runs[r].pc = "first"
    /\ runs' = IF ~fileExists(requested)
               THEN [runs EXCEPT ![r].pc = "unique",
                                 ![r].uniqueName = requested]
               ELSE [runs EXCEPT ![r].pc = "loop",
                                 ![r].counter = firstCounter]
    /\ UNCHANGED <<files, written, overwritten>>
    /\ raceFrame

(* lines 243-257: one turn of the loop *)
RunCheckCandidate(r) ==
    /\ runs[r].pc = "loop"
    /\ LET newFileName == numberedName(pathParse(requested), runs[r].counter)
       IN  runs' = IF ~fileExists(newFileName)
                   THEN [runs EXCEPT ![r].pc = "unique",
                                     ![r].uniqueName = newFileName]
                   ELSE [runs EXCEPT ![r].counter = @ + 1,
                                     ![r].pc = IF runs[r].counter + 1 > maxCounter
                                               THEN "failed" ELSE "loop"]
    /\ UNCHANGED <<files, written, overwritten>>
    /\ raceFrame

(* lines 140-155: saveImageFile is called with the name found unique; the *)
(* checks of the output directory pass or reject                           *)
RunSaveChecks(r, result) ==
    /\ runs[r].pc = "unique"
    /\ runs' = [runs EXCEPT ![r].pc = IF result = "ok" THEN "write"
                                      ELSE "rejected"]
    /\ UNCHANGED <<files, written, overwritten>>
    /\ raceFrame

(* line 158: fs.writeFile(fullPath, imageBuffer) creates the file or      *)
(* replaces its content                                                    *)
RunSaveWrite(r, result) ==
    /\ runs[r].pc = "write"
    /\ IF result = "ok"
       THEN LET name == runs[r].uniqueName
            IN  /\ runs' = [runs EXCEPT ![r].pc = "statFile"]
                /\ files' = [files EXCEPT !.listed = @ \cup {name}]
                /\ written' = {w \in written : w.name # name}
                                 \cup {[name |-> name, run |-> r]}
                /\ overwritten' =
                      (overwritten
                         \/ \E w \in written : w.name = name /\ w.run # r)
       ELSE /\ runs' = [runs EXCEPT ![r].pc = "rejected"]
            /\ UNCHANGED <<files, written, overwritten>>
    /\ raceFrame

(* lines 161-167: fs.stat(fullPath) and the returned object *)
RunSaveStatFile(r) ==
    /\ runs[r].pc = "statFile"
    /\ runs' = [runs EXCEPT ![r].pc = "resolved"]
    /\ UNCHANGED <<files, written, overwritten>>
    /\ raceFrame

RaceNext ==
    \E r \in Runs :
        \/ RunUniqueCall(r)
        \/ RunCheckOriginal(r)
        \/ RunCheckCandidate(r)
        \/ \E result \in {"ok", "EACCES"} : RunSaveChecks(r, result)
        \/ \E result \in {"ok", "ENOSPC"} : RunSaveWrite(r, result)
        \/ RunSaveStatFile(r)

RaceSpec == RaceInit /\ [][RaceNext]_vars

---------------------------------------------------------------------------
(* adjustDimensions called directly, as the unit tests call it             *)

(* byte counts passed as currentSize and targetSize *)
AdjustSizes == {1000, 250000, 500000, 1000000, 2000000, 1048576000}

AdjustWidths == {1, 2, 25, 26, 49, 50, 100, 1920, 32767}

AdjustHeights == {1, 25, 56, 100, 18431}

AdjustCalls ==
    [currentSize : AdjustSizes, targetSize : AdjustSizes,
     currentWidth : AdjustWidths, currentHeight : AdjustHeights]

AdjustInit ==
    /\ CallInit
    /\ adjustCall \in AdjustCalls
    /\ adjusted = NoDimensions
    /\ RaceIdle
    /\ estimateTarget = 0
    /\ estimates = [f \in EstimateFormats |-> NoDimensions]
    /\ SessionInit

(* lines 285-299 *)
AdjustDimensions ==
    /\ adjusted = NoDimensions
    /\ adjusted' = adjustDimensions(adjustCall.currentSize, adjustCall.targetSize,
                                    adjustCall.currentWidth,
                                    adjustCall.currentHeight)
    /\ UNCHANGED <<adjustCall, raceVars, callVars, estimateVars, sessionVars,
                   fileVars>>

AdjustNext == AdjustDimensions

AdjustSpec == AdjustInit /\ [][AdjustNext]_vars

---------------------------------------------------------------------------
(* Properties                                                              *)

(* C1: in every call, the width and the height passed to each render call *)
(* are both at most 32767, whatever sizes the earlier renders returned.    *)
C1_RenderWithinCeiling ==
    renders > 0 => lastRender.width <= 32767 /\ lastRender.height <= 32767

(* a render made right after an adjustment overshot the ceiling *)
C1_Witness ==
    pc = "render" /\ clamps > 0 /\ lastRender.width = 32767

(* C2: once the first adjustment has run, width and height stay at least  *)
(* 50: in the loop state, at every later render call (also after a ceiling *)
(* clamp) and in the returned outcome.                                     *)
C2_FloorAfterAdjustment ==
    adjustments > 0 =>
        /\ width >= 50 /\ height >= 50
        /\ (pc = "render" => lastRender.width >= 50 /\ lastRender.height >= 50)
        /\ (pc = "returned" => outcome.width >= 50 /\ outcome.height >= 50)

(* a call that was clamped at the ceiling and later shrunk to the floor *)
C2_Witness ==
    pc = "returned" /\ clamps > 0 /\ outcome.height = 50

(* |a - t| < t * num/den in exact arithmetic, num/den the decimal the     *)
(* caller wrote as the tolerance                                           *)
StrictlyInsideBand(a, t, tolerance) ==
    BigLess(BigMulDigit(BigFromInt(IF a >= t THEN a - t ELSE t - a),
                        tolerance.den, 0),
            BigMulDigit(BigFromInt(t), tolerance.num, 0))

(* C3: a render is accepted exactly when                                   *)
(* |actualSizeBytes - targetSizeBytes| < targetSizeBytes * tolerance: a    *)
(* size exactly on the edge of the band is rejected, any size strictly     *)
(* inside it, and so an exact match, is accepted.                          *)
C3_AcceptedExactlyInsideBand ==
    /\ pc = "exit" =>
          StrictlyInsideBand(actualSize, targetSizeBytes, config.tolerance)
    /\ (pc = "loop" /\ renders > 0) =>
          ~StrictlyInsideBand(actualSize, targetSizeBytes, config.tolerance)

(* the number of steps the call can still take: two per remaining         *)
(* iteration (loop head, render result), one to return                     *)
StepsLeft ==
    CASE pc = "loop"   -> 2 * (config.maxIterations - iteration) + 1
      [] pc = "render" -> 2 * (config.maxIterations - iteration)
      [] pc = "exit"   -> 1
      [] OTHER         -> 0

(* C4: for any valid configuration and any sequence of sizes returned by  *)
(* the renderer, the call terminates after at most maxIterations render    *)
(* calls: the render count never exceeds maxIterations, and every step of  *)
(* a running call strictly decreases a step count that starts at           *)
(* 2 * maxIterations + 1 and never goes below zero.                        *)
C4_TerminatesWithinBudget ==
    /\ [](renders <= config.maxIterations)
    /\ [](StepsLeft >= 0 /\ StepsLeft <= 2 * config.maxIterations + 1)
    /\ [][pc # "idle" => StepsLeft' < StepsLeft]_vars

(* a call that used its whole budget of several renders and returned *)
C4_Witness ==
    /\ pc = "returned" /\ ~accepted
    /\ config.maxIterations > 1 /\ renders = config.maxIterations

(* C5: with maxIterations = 1 exactly one render call is made, accepted   *)
(* or not, and the returned outcome has iterations = 1.                    *)
C5_SingleIteration ==
    (pc = "returned" /\ config.maxIterations = 1) =>
        renders = 1 /\ outcome.iterations = 1

(* C6: the iterations field of every returned outcome satisfies           *)
(* 1 <= iterations <= maxIterations, on the acceptance path and on the     *)
(* exhausted-budget path alike.                                            *)
C6_IterationsWithinBudget ==
    pc = "returned" =>
        1 <= outcome.iterations /\ outcome.iterations <= config.maxIterations

(* the spellings of the supported formats *)
SupportedSpellings == {"jpg", "jpeg", "png", "JPG", "JPEG", "PNG"}
JpegSpellings == {"jpg", "jpeg", "JPG", "JPEG"}

(* C7: when targetSizeMB <= 0 or the format is not one of jpg, jpeg, png  *)
(* (in any case), the call fails with an error, the renderer is never      *)
(* invoked and no outcome is returned.                                     *)
C7_ValidationFailsFast ==
    (pc # "idle" /\ (config.targetSizeMB <= 0
                     \/ config.format \notin SupportedSpellings)) =>
        /\ pc = "failed"
        /\ error # None
        /\ renders = 0
        /\ outcome = NoOutcome

(* a call rejected for its format alone *)
C7_Witness ==
    pc = "failed" /\ config.format = "gif" /\ config.targetSizeMB > 0

(* C8: when no render meets the tolerance within maxIterations the call   *)
(* does not fail: it returns an outcome whose buffer and actualSizeBytes   *)
(* are those of the last render performed.                                 *)
C8_LastRenderReturned ==
    /\ (pc = "loop" /\ iteration >= config.maxIterations) =>
          error = None /\ ENABLED Return
    /\ (pc = "returned" /\ ~accepted) =>
          /\ error = None
          /\ renders = config.maxIterations
          /\ outcome.buffer = buffer
          /\ outcome.buffer.render = renders
          /\ outcome.actualSizeBytes = buffer.length

(* a call that exhausted a budget of several renders *)
C8_Witness ==
    pc = "returned" /\ ~accepted /\ renders > 1 /\ warned

(* C9: for jpg/jpeg, once a render has been made with a dimension at the  *)
(* 32767 ceiling, width and height never change again before the call      *)
(* returns: later renders and the outcome use the same dimensions, and     *)
(* only quality is adjusted.                                               *)
C9_QualitySearchOneWay ==
    (ceilingRender # NoRender /\ config.format \in JpegSpellings) =>
        /\ width = ceilingRender.width /\ height = ceilingRender.height
        /\ lastRender.width = ceilingRender.width
        /\ lastRender.height = ceilingRender.height
        /\ (pc = "returned" =>
               /\ outcome.width = ceilingRender.width
               /\ outcome.height = ceilingRender.height)

(* a jpeg call that reached the ceiling by an adjustment and then moved   *)
(* its quality                                                             *)
C9_Witness ==
    /\ pc = "returned" /\ config.format \in JpegSpellings
    /\ clamps > 0 /\ ceilingRender # NoRender
    /\ outcome.quality # ceilingRender.quality

(* a jpeg call whose estimate was already at the ceiling *)
C9_WitnessEstimator ==
    /\ pc = "returned" /\ config.format \in JpegSpellings
    /\ clamps = 0 /\ ceilingRender # NoRender
    /\ outcome.quality # ceilingRender.quality

Area(d) == d.width * d.height

BothEstimated == estimates["jpg"] # NoDimensions /\ estimates["png"] # NoDimensions

(* C10 as stated: for every targetSizeBytes > 0 the png estimate has a    *)
(* strictly larger pixel area than the jpg estimate.                       *)
C10_PngAreaStrictlyLarger ==
    BothEstimated => Area(estimates["png"]) > Area(estimates["jpg"])

(* C10 as amended: the png estimate has a pixel area at least that of the *)
(* jpg estimate, and a strictly larger one unless both calls return the    *)
(* same pair, which is then the floor 100 x 56 or the ceiling              *)
(* 32767 x 18431.                                                          *)
C10_PngAreaLargerUnlessClamped ==
    BothEstimated =>
        /\ Area(estimates["png"]) >= Area(estimates["jpg"])
        /\ estimates["png"] # estimates["jpg"] =>
              Area(estimates["png"]) > Area(estimates["jpg"])
        /\ estimates["png"] = estimates["jpg"] =>
              estimates["png"] \in {[width |-> 100, height |-> 56],
                                    [width |-> 32767, height |-> 18431]}

(* both estimates made for a target between the floor and the ceiling *)
C10_Witness ==
    /\ BothEstimated
    /\ estimates["jpg"].width > 100 /\ estimates["png"].width < 32767
    /\ Area(estimates["png"]) > Area(estimates["jpg"])

(* the unrounded estimate of a target of t bytes exceeds the ceiling on   *)
(* an axis: t / factor * 16/9 > 32767^2 (the width is the larger axis)     *)
EstimateExceedsCeiling(t, f) ==
    LET factor == compressionFactors(f)
    IN  BigLess(BigMul(BigFromInt(32767 * 9 * factor.num), BigFromInt(32767)),
                BigMul(BigFromInt(t), BigFromInt(16 * factor.den)))

(* C11: for every targetSizeBytes > 0 and every supported format the      *)
(* estimate is a pair of integers with 100 <= width <= 32767 and           *)
(* 56 <= height <= 32767; when the unclamped estimate exceeds the ceiling  *)
(* on either axis the larger returned dimension equals 32767.              *)
C11_EstimateWithinBounds ==
    \A f \in EstimateFormats :
        estimates[f] # NoDimensions =>
            /\ estimates[f].width \in 100..32767
            /\ estimates[f].height \in 56..32767
            /\ EstimateExceedsCeiling(estimateTarget, f) =>
                  Max(estimates[f].width, estimates[f].height) = 32767

(* an estimate for a target beyond the ceiling, rescaled to 32767 x 18431 *)
C11_Witness ==
    /\ EstimateExceedsCeiling(estimateTarget, "png")
    /\ estimates["png"] = [width |-> 32767, height |-> 18431]

(* C12: if the renderer fails during any iteration, the call fails with   *)
(* that same error unmodified, makes no further render call and returns no *)
(* outcome.                                                                *)
C12_RendererErrorPropagates ==
    /\ thrown # NoThrow =>
          /\ pc = "failed"
          /\ error = thrown.error
          /\ renders = thrown.render
          /\ outcome = NoOutcome
          /\ ~warned
          /\ ~ENABLED StartRender
          /\ ~ENABLED Return
    /\ (pc = "failed" /\ renders > 0) => thrown # NoThrow

(* the renderer failed in a later iteration, after a rejected render *)
C12_Witness ==
    /\ pc = "failed" /\ thrown.render > 1 /\ adjustments > 0
    /\ error = "getBufferAsync failed"

(* C13: the non-convergence warning is raised exactly in the exhausted    *)
(* case: it is emitted if and only if no render of the call met the        *)
(* tolerance; in particular it is not emitted when the last permitted      *)
(* render (render number maxIterations) is the one that is accepted.       *)
C13_WarningIffExhausted ==
    /\ pc = "returned" => (warned <=> ~accepted)
    /\ pc # "returned" => ~warned
    /\ (pc = "returned" /\ accepted /\ renders = config.maxIterations) =>
          ~warned

(* the last permitted render of several was the accepted one *)
C13_Witness ==
    /\ pc = "returned" /\ accepted /\ ~warned
    /\ renders = config.maxIterations /\ renders > 1

(* the 16:9 dimensions whose area times c equals t lie strictly between   *)
(* the 50-pixel floor and the ceiling: t/c * 9/16 > 50^2 and               *)
(* t/c * 16/9 < 32767^2                                                    *)
MatchingInside(t, c) ==
    /\ BigLess(BigFromInt(2500 * 16 * c.num),
               BigMul(BigFromInt(t), BigFromInt(9 * c.den)))
    /\ BigLess(BigMul(BigFromInt(t), BigFromInt(16 * c.den)),
               BigMul(BigFromInt(32767 * 9 * c.num), BigFromInt(32767)))

(* a returned call with the default budget and tolerance on a target      *)
(* whose matching dimensions are inside the limits                         *)
DefaultCallReturned ==
    /\ pc = "returned"
    /\ config.maxIterations = DefaultMaxIterations
    /\ config.tolerance = DefaultTolerance
    /\ MatchingInside(targetSizeBytes, renderer)

EndedByAcceptance ==
    /\ accepted
    /\ isWithinTolerance(outcome.actualSizeBytes, targetSizeBytes,
                         toleranceNumber(config.tolerance))

(* the estimate the call started from has a dimension at the ceiling *)
SeedAtCeiling == seed.width >= 32767 \/ seed.height >= 32767

StricterThan(x, y) == x.num * y.den < y.num * x.den

(* two calls have returned, with the same target size, format and budget *)
BothReturned ==
    /\ pc = "returned"
    /\ previous # NoPrevious
    /\ previous.config.targetSizeMB = config.targetSizeMB
    /\ previous.config.format = config.format
    /\ previous.config.maxIterations = config.maxIterations

(* C15: for the same target size, format, maxIterations and the same      *)
(* deterministic renderer, a call with a stricter (smaller) tolerance      *)
(* returns an iterations count greater than or equal to that of a call     *)
(* with a looser (larger) tolerance.                                       *)
C15_StricterToleranceNoFewerIterations ==
    BothReturned =>
        /\ StricterThan(previous.config.tolerance, config.tolerance) =>
              previous.outcome.iterations >= outcome.iterations
        /\ StricterThan(config.tolerance, previous.config.tolerance) =>
              outcome.iterations >= previous.outcome.iterations

(* the stricter of two calls needed more iterations than the looser *)
C15_Witness ==
    /\ BothReturned
    /\ StricterThan(previous.config.tolerance, config.tolerance)
    /\ previous.outcome.iterations > outcome.iterations

WithinOnePercent(x, v) == 100 * (IF x >= v THEN x - v ELSE v - x) <= v

(* the estimate for targetSizeMB = 1 and format jpg has been made *)
OneMegabyteJpgEstimated ==
    estimateTarget = 1048576 /\ estimates["jpg"] # NoDimensions

(* C17 as stated: for targetSizeMB = 1 (1,048,576 bytes) and format jpg   *)
(* the seed dimensions are about 1089 wide and about 613 high, each        *)
(* within 1% of those values.                                              *)
C17_SeedAbout1089By613 ==
    OneMegabyteJpgEstimated =>
        /\ WithinOnePercent(estimates["jpg"].width, 1089)
        /\ WithinOnePercent(estimates["jpg"].height, 613)

(* C17 as amended: for targetSizeMB = 1 and format jpg the seed           *)
(* dimensions are 1115 wide and 627 high, the rounded values of            *)
(* sqrt((1,048,576 / 1.5) * 16/9) = 1114.8 and of its 9/16.                *)
C17_SeedIs1115By627 ==
    OneMegabyteJpgEstimated =>
        estimates["jpg"] = [width |-> 1115, height |-> 627]

(* the estimate for one megabyte of jpg, between the floor and the ceiling *)
C17_Witness ==
    /\ OneMegabyteJpgEstimated
    /\ estimates["jpg"].width > 100 /\ estimates["jpg"].width < 32767

(* no file was created in the directory since generateUniqueFileName was  *)
(* called                                                                  *)
DirectoryUnchanged == files = filesAtCall

(* the k-th numbered name of the file name being made unique *)
Numbered(k) == numberedName(pathParse(fileName), k)

(* the name returned is the file name itself if no such file exists, and  *)
(* otherwise the numbered name of the smallest free k >= 1; it did not     *)
(* exist when it was checked                                               *)
ReturnedSmallestFree ==
    /\ ~existsIn(checkedFiles, uniqueName)
    /\ DirectoryUnchanged =>
          IF ~fileExists(fileName)
          THEN uniqueName = fileName
          ELSE /\ counter >= 1
               /\ uniqueName = Numbered(counter)
               /\ ~fileExists(Numbered(counter))
               /\ \A j \in 1..(counter - 1) : fileExists(Numbered(j))

C19_SaveFailsWithFileSystemError ==
    /\ spc = "rejected" =>
          /\ saveError.name = "FileSystemError"
          /\ failedStep \in {"access", "mkdir", "permission", "stat", "write",
                              "statFile"}
    /\ (spc \in {"access", "mkdir", "permission"}
        \/ (spc = "rejected"
            /\ failedStep \in {"access", "mkdir", "permission"})) =>
          /\ writes = 0
          /\ ~fileExists(uniqueName)
    /\ spc # "rejected" => saveError = NoError

(* the write-permission check failed after the directory had been created *)
C19_Witness ==
    /\ spc = "rejected" /\ failedStep = "permission" /\ writes = 0
    /\ saveError = FileSystemError("no write permission", "EACCES")

(* fs.writeFile itself failed and was reported as a FileSystemError *)
C19_WitnessWrite ==
    /\ spc = "rejected" /\ failedStep = "write" /\ writes = 1
    /\ saveError = FileSystemError("disk full", "ENOSPC")

(* C20: for jpg/jpeg, in every call in which a render is made with width  *)
(* or height equal to 32767, the first such render uses the quality given  *)
(* by the step table applied to targetSizeBytes / (width * height):        *)
(* > 2.0 gives 100, > 1.5 gives 95, > 1.0 gives 90, > 0.5 gives 80,        *)
(* otherwise 70; whether the ceiling was reached by the estimator or by a  *)
(* dimension adjustment.                                                   *)
C20_CeilingQualityFromTable ==
    (ceilingRender # NoRender /\ config.format \in JpegSpellings) =>
        ceilingRender.quality =
            seedQuality(targetSizeBytes,
                        ceilingRender.width * ceilingRender.height)

(* the same for the calls whose first render at the ceiling follows a     *)
(* clamp of the ceiling check                                              *)
CeilingQualityAfterClamp ==
    (ceilingRender # NoRender /\ config.format \in JpegSpellings
     /\ seed.width < 32767 /\ clamps > 0) =>
        ceilingRender.quality =
            seedQuality(targetSizeBytes,
                        ceilingRender.width * ceilingRender.height)

(* C21: no adjustment follows the last permitted render, so when the      *)
(* budget is exhausted the width, height and quality of the outcome are    *)
(* exactly the values passed to the render that produced the returned      *)
(* buffer.                                                                 *)
C21_ExhaustedOutcomeIsLastRender ==
    (pc = "returned" /\ ~accepted) =>
        /\ adjustments < config.maxIterations
        /\ outcome.width = lastRender.width
        /\ outcome.height = lastRender.height
        /\ (config.format \in JpegSpellings =>
               outcome.quality = lastRender.quality)

(* what lines 419-444 do instead: every rejected render is followed by an *)
(* adjustment, the last one too, and the outcome carries the adjusted      *)
(* values                                                                  *)
ExhaustedOutcomeIsAdjusted ==
    (pc = "returned" /\ ~accepted) =>
        /\ adjustments = config.maxIterations
        /\ LET a == adjustAfterRender(lastRender.width, lastRender.height,
                                      lastRender.quality, config.format,
                                      actualSize, targetSizeBytes)
           IN  /\ outcome.width = a.width
               /\ outcome.height = a.height
               /\ (config.format \in JpegSpellings =>
                      outcome.quality = a.quality)

(* the render before this one was made with a dimension at the ceiling *)
AtCeiling(r) == r.width = maxDimension \/ r.height = maxDimension

(* the step from the loop head to the next render call of a png call      *)
(* whose previous render, made at the ceiling, was rejected                *)
PngRendersAgainAfterCeiling ==
    /\ pc = "loop" /\ pc' = "render"
    /\ toLowerCase(config.format) = "png"
    /\ renders > 0 /\ AtCeiling(lastRender)

SameDimensions(r1, r2) == r1.width = r2.width /\ r1.height = r2.height

C22_WitnessTooLarge ==
    /\ pc = "render" /\ toLowerCase(config.format) = "png"
    /\ renders > 1 /\ ceilingRender # NoRender /\ ~AtCeiling(lastRender)
    /\ actualSize > targetSizeBytes

(* the floors of estimateInitialDimensions (100 x 56) and of               *)
(* adjustDimensions (50 x 50)                                              *)
AtMinimumCanvas(r) ==
    \/ r.width = 100 /\ r.height = 56
    \/ r.width = 50 /\ r.height = 50

(* a jpg/jpeg render at the minimum canvas comes back larger than the     *)
(* target and outside the tolerance                                        *)
MinimumCanvasTooLarge ==
    /\ pc = "render" /\ pc' = "loop"
    /\ config.format \in JpegSpellings
    /\ AtMinimumCanvas(lastRender)
    /\ actualSize' > targetSizeBytes

(* C23: for jpg/jpeg, when the dimensions have degraded to the minimum    *)
(* canvas and the render is still larger than the target beyond the        *)
(* tolerance, the loop lowers the encoder quality for the following        *)
(* iteration.                                                              *)
C23_MinimumCanvasLowersQuality ==
    [][MinimumCanvasTooLarge => quality' < quality]_vars

(* what lines 420-441 do instead: below the ceiling quality is left alone *)
MinimumCanvasKeepsQuality ==
    [][MinimumCanvasTooLarge => quality' = quality /\ quality = 90]_vars

(* two renders in a row at 50 x 50 and quality 90, the first one too large *)
MinimumCanvasRenderedTwice ==
    /\ pc = "render" /\ config.format \in JpegSpellings
    /\ renders > 2 /\ lastRender = [width |-> 50, height |-> 50, quality |-> 90]
    /\ actualSize > targetSizeBytes

(* a jpg/jpeg render made with a dimension at the ceiling is rejected *)
QualityRegimeRejection ==
    /\ pc = "render" /\ pc' = "loop"
    /\ config.format \in JpegSpellings
    /\ AtCeiling(lastRender)

(* C24: in the quality regime (jpg/jpeg with a dimension at the ceiling)  *)
(* a render that is not accepted changes quality by exactly one step: to   *)
(* min(100, quality + 5) when actualSizeBytes < targetSizeBytes, otherwise *)
(* to max(10, quality - 5).                                                *)
C24_QualityStep ==
    [][QualityRegimeRejection =>
           /\ quality = lastRender.quality
           /\ IF actualSize' < targetSizeBytes
              THEN quality' = (IF quality + 5 > 100 THEN 100 ELSE quality + 5)
              ELSE quality' = (IF quality - 5 < 10 THEN 10 ELSE quality - 5)]_vars

(* a jpeg call whose quality was held at the bottom of the range *)
C24_Witness ==
    /\ pc = "render" /\ config.format \in JpegSpellings
    /\ AtCeiling(lastRender) /\ lastRender.quality = 10
    /\ quality = 10 /\ actualSize > targetSizeBytes /\ adjustments > 16

(* a jpeg call whose quality was held at the top of the range *)
C24_WitnessTop ==
    /\ pc = "render" /\ config.format \in JpegSpellings
    /\ AtCeiling(lastRender) /\ lastRender.quality = 100
    /\ quality = 100 /\ actualSize < targetSizeBytes /\ adjustments > 2

(* n is Math.round(dim * sqrt(t / c)): n - 1/2 <= dim * sqrt(t / c) and   *)
(* dim * sqrt(t / c) < n + 1/2, squared and cleared of fractions           *)
IsRoundedScaled(n, dim, t, c) ==
    LET BigSquare(x) == BigMul(BigFromInt(x), BigFromInt(x))
        scaled == BigMul(BigSquare(2 * dim), BigFromInt(t))
        below  == BigMul(BigSquare(2 * n - 1), BigFromInt(c))
        above  == BigMul(BigSquare(2 * n + 1), BigFromInt(c))
    IN  /\ n >= 0
        /\ n = 0 \/ BigLeq(below, scaled)
        /\ BigLess(scaled, above)

(* the result for one dimension is max(round(dim * sqrt(t / c)), 50) *)
IsAdjusted(new, dim, t, c) ==
    \/ new > 50 /\ IsRoundedScaled(new, dim, t, c)
    \/ new = 50 /\ \E n \in 0..50 : IsRoundedScaled(n, dim, t, c)

(* the bounds on one dimension that hold for every ratio of the sizes *)
AdjustedInRange(new, dim, t, c) ==
    /\ IsAdjusted(new, dim, t, c)
    /\ t > c => new >= dim
    /\ t < c => new <= Max(dim, 50)

(* C25: adjustDimensions scales both dimensions by the square root of     *)
(* targetSize / currentSize: each result is max(round(dim * sqrt(ratio)),  *)
(* 50); for targetSize > currentSize no dimension shrinks, for targetSize  *)
(* < currentSize none grows beyond max(dim, 50), and for targetSize = 2 *  *)
(* currentSize each new dimension is strictly between dim and 2 * dim.     *)
C25_AdjustBySquareRoot ==
    adjusted # NoDimensions =>
        LET t == adjustCall.targetSize
            c == adjustCall.currentSize
            w == adjustCall.currentWidth
            h == adjustCall.currentHeight
        IN  /\ AdjustedInRange(adjusted.width, w, t, c)
            /\ AdjustedInRange(adjusted.height, h, t, c)
            /\ t = 2 * c =>
                  /\ w < adjusted.width /\ adjusted.width < 2 * w
                  /\ h < adjusted.height /\ adjusted.height < 2 * h

(* C25, amended: as above, but for targetSize = 2 * currentSize each new  *)
(* dimension is strictly above dim, and strictly below 2 * dim when dim is *)
(* at least 26; for a smaller dim the result is the floor 50.              *)
C25_AdjustBySquareRootAboveFloor ==
    adjusted # NoDimensions =>
        LET t == adjustCall.targetSize
            c == adjustCall.currentSize
            w == adjustCall.currentWidth
            h == adjustCall.currentHeight
        IN  /\ AdjustedInRange(adjusted.width, w, t, c)
            /\ AdjustedInRange(adjusted.height, h, t, c)
            /\ t = 2 * c =>
                  /\ w < adjusted.width /\ h < adjusted.height
                  /\ IF w >= 26 THEN adjusted.width < 2 * w
                                ELSE adjusted.width = 50
                  /\ IF h >= 26 THEN adjusted.height < 2 * h
                                ELSE adjusted.height = 50

(* the call of the unit test: twice the size at 100 x 100 gives 141 x 141 *)
C25_Witness ==
    /\ adjustCall = [currentSize |-> 1000000, targetSize |-> 2000000,
                     currentWidth |-> 100, currentHeight |-> 100]
    /\ adjusted = [width |-> 141, height |-> 141]

(* twice the size at 25 x 25 gives the floor, 50 x 50 *)
C25_WitnessFloor ==
    /\ adjustCall.targetSize = 2 * adjustCall.currentSize
    /\ adjustCall.currentWidth = 25 /\ adjustCall.currentHeight = 25
    /\ adjusted = [width |-> 50, height |-> 50]

(* the qualities 10, 15, .., 100 *)
QualitySteps == {q \in 10..100 : q % 5 = 0}

(* C26: in every state of a generateImageWithTargetSize call in which     *)
(* quality has been initialised, quality is a multiple of 5 between 10 and *)
(* 100, and so is the quality every render call receives.                  *)
C26_QualityInSteps ==
    /\ pc \in {"loop", "render", "exit", "returned"} => quality \in QualitySteps
    /\ renders > 0 => lastRender.quality \in QualitySteps

(* a jpeg call that returns with quality at the bottom of the range *)
C26_Witness ==
    /\ pc = "returned" /\ config.format \in JpegSpellings
    /\ outcome.quality = 10 /\ renders = config.maxIterations

(* C27: the width and the height of every returned outcome are both at    *)
(* most 32767, for jpg/jpeg and for png, whether the call ended by         *)
(* acceptance or by exhausting its budget.                                 *)
C27_OutcomeWithinCeiling ==
    pc = "returned" =>
        outcome.width <= maxDimension /\ outcome.height <= maxDimension

(* what does hold: an outcome ended by acceptance, and every jpg/jpeg     *)
(* outcome whose last render was at the ceiling, is within the ceiling     *)
AcceptedOutcomeWithinCeiling ==
    (pc = "returned"
       /\ (accepted \/ (config.format \in JpegSpellings /\ AtCeiling(lastRender)))) =>
        outcome.width <= maxDimension /\ outcome.height <= maxDimension

(* the step from the loop head to a render call that is not the first of  *)
(* its generateImageWithTargetSize call; lastRender and actualSize are     *)
(* those of the rejected render before it                                  *)
RendersAgain == pc = "loop" /\ pc' = "render" /\ renders > 0

InQualityRegime == config.format \in JpegSpellings /\ AtCeiling(lastRender)

(* the quality cannot move further in the direction the render asks for *)
QualitySaturated ==
    /\ InQualityRegime
    /\ \/ actualSize < targetSizeBytes /\ lastRender.quality = 100
       \/ actualSize > targetSizeBytes /\ lastRender.quality = 10

(* both dimensions are at the floor of adjustDimensions and must shrink *)
PinnedAtFloor ==
    /\ ~InQualityRegime
    /\ actualSize > targetSizeBytes
    /\ lastRender.width = 50 /\ lastRender.height = 50

(* a png at the ceiling that must grow *)
PngPinnedAtCeiling ==
    /\ toLowerCase(config.format) = "png"
    /\ AtCeiling(lastRender)
    /\ actualSize < targetSizeBytes

C28_WitnessSaturated ==
    /\ pc = "render" /\ config.format \in JpegSpellings
    /\ AtCeiling(lastRender) /\ lastRender.quality = 10
    /\ actualSize > targetSizeBytes /\ adjustments > 17

C28_WitnessProgress ==
    /\ pc = "render" /\ renders = 2
    /\ ~SameDimensions(lastRender, seed)

BothResolved == \A r \in Runs : runs[r].pc = "resolved"

(* C29: when two runs interleave, each calling generateUniqueFileName and *)
(* then saveImageFile for the same requested name in the same directory,   *)
(* neither overwrites the file written by the other: they end up with two  *)
(* distinct files.                                                         *)
C29_RunsWriteDistinctFiles ==
    BothResolved =>
        /\ runs[1].uniqueName # runs[2].uniqueName
        /\ ~overwritten
        /\ \A r \in Runs : [name |-> runs[r].uniqueName, run |-> r] \in written

(* what does hold: a run whose checks all come after the write of the     *)
(* other run picks another name, so a file is only overwritten when both   *)
(* runs found the same name free before either wrote it                    *)
OverwrittenOnlyBySameName ==
    overwritten <=>
        /\ runs[1].uniqueName = runs[2].uniqueName
        /\ \A r \in Runs : runs[r].pc \in {"statFile", "resolved"}

(* the two runs, one after the other, end up with two distinct files *)
RunsWroteDistinctFiles ==
    /\ BothResolved
    /\ runs[1].uniqueName # runs[2].uniqueName
    /\ Cardinality(written) = 2

(* a png call, or a jpg/jpeg call none of whose renders so far was made   *)
(* with a dimension at the ceiling                                         *)
OutsideQualityRegime ==
    /\ pc \in {"loop", "render", "exit", "returned"}
    /\ \/ toLowerCase(config.format) = "png"
       \/ config.format \in JpegSpellings /\ ceilingRender = NoRender

(* C30: dimension adjustments leave quality unchanged: in every png call, *)
(* and in every jpg/jpeg call in which no render is made with a dimension  *)
(* at the ceiling, every render uses quality 90, and a jpg/jpeg outcome of *)
(* such a call reports quality 90.                                         *)
C30_QualityStaysNinety ==
    OutsideQualityRegime =>
        /\ quality = 90
        /\ renders > 0 => lastRender.quality = 90
        /\ (pc = "returned" /\ config.format \in JpegSpellings) =>
               outcome.quality = 90

(* a jpg/jpeg call that adjusted its dimensions more than once, never     *)
(* rendered at the ceiling and returned                                    *)
C30_Witness ==
    /\ pc = "returned" /\ config.format \in JpegSpellings
    /\ ceilingRender = NoRender /\ adjustments > 1
    /\ outcome.quality = 90
    /\ ~SameDimensions(outcome, seed)

(* a png call that rendered at the ceiling more than once *)
C30_WitnessPng ==
    /\ pc = "render" /\ toLowerCase(config.format) = "png"
    /\ AtCeiling(lastRender) /\ clamps > 0 /\ lastRender.quality = 90

=============================================================================
